---- MODULE Spec2Model ----
(***************************************************************************)
(* git-vendor: the Vendor operations on a repository (src/src/lib.rs), the *)
(* command line front end (src/src/main.rs, src/src/cli.rs) and the        *)
(* repository state they read and write.                                   *)
(*                                                                         *)
(* Text is modelled as a sequence of pieces (substrings): the token        *)
(* "url=upstream" is <<"url=", "upstream">>, the pattern "pyo3/**" is      *)
(* <<"pyo3", "/", "**">>, the file name "lib.txt" is <<"lib", ".txt">>.    *)
(* A line of .gitattributes is the sequence of its whitespace-separated    *)
(* tokens, a file is the sequence of its lines.  An Option is <<>> (None)  *)
(* or <<v>> (Some(v)).                                                     *)
(***************************************************************************)
EXTENDS Integers, Sequences, FiniteSets, TLC

VARIABLES
    bare,       \* Repository::is_bare()
    cwd,        \* std::env::current_dir(), relative to the working directory
    files,      \* the .gitattributes file of each directory: None or Some(lines)
    head,       \* the commit HEAD points to, None when unborn: Some([id, tree, parents])
    index,      \* the index (staging area): path -> content
    worktree,   \* the working tree files other than .gitattributes
    refs,       \* remote-tracking reference of each declared url: None or Some(commit)
    merge_state,\* MERGE_HEAD / MERGE_MSG: None or Some([parents, msg])
    last        \* the last call of the program and what it returned

vars == <<bare, cwd, files, head, index, worktree, refs, merge_state, last>>

repo_vars == <<head, index, worktree, refs, merge_state>>

-----------------------------------------------------------------------------
(* Bounds of the model *)

\* commits the user adds on top of the initial commit
MaxCommits == 1

\* lines the .gitattributes files of the working tree hold in total
MaxLines == 2

-----------------------------------------------------------------------------
(* Values *)

None == <<>>
Some(v) == <<v>>

Ok == [kind |-> "Ok", msg |-> <<>>]
Err(m) == [kind |-> "Err", msg |-> m]
\* todo!() unwinds with this message; the call returns no value
Panic == [kind |-> "Panic", msg |-> <<"not yet implemented">>]

BareMsg == <<"This operation is not supported in a bare repository">>
NoFetchMsg == <<"No vendored dependencies to fetch">>

\* directories of the working tree, as paths from its root
RootDir == <<>>
SubDir == << <<"pyo3">> >>
Dirs == {RootDir, SubDir}

\* raw patterns
PatTxt == <<"*", ".txt">>
PatPyo == <<"pyo3", "/", "**">>
Patterns == {PatTxt, PatPyo}

UrlUp == <<"upstream">>
Main == <<"main">>

\* attribute tokens
Vendored == <<"vendored">>
UrlAttr(u) == <<"url=">> \o u
BranchAttr(b) == <<"branch=">> \o b
PrefixAttr(p) == <<"prefix=">> \o p
Diff == <<"diff">>

-----------------------------------------------------------------------------
(* Repository helpers *)

require_non_bare(is_bare) ==
    IF is_bare THEN Err(BareMsg) ELSE Ok

Parent(dir) == SubSeq(dir, 1, Len(dir) - 1)

\* the loop of find_gitattributes from `dir` upwards; the working directory is
\* RootDir, whose parent is outside the repository and ends the loop
RECURSIVE FindFrom(_, _, _)
FindFrom(dir, current_dir, fs) ==
    IF fs[dir] # None THEN dir
    ELSE IF dir = RootDir THEN current_dir
    ELSE FindFrom(Parent(dir), current_dir, fs)

find_gitattributes(current_dir, fs) == FindFrom(current_dir, current_dir, fs)

-----------------------------------------------------------------------------
(* Attribute file *)

StartsWith(tok, piece) == Len(tok) >= 1 /\ tok[1] = piece

StripPrefix(tok, piece) == IF StartsWith(tok, piece) THEN Some(Tail(tok)) ELSE None

IsBlankOrComment(line) ==
    line = <<>> \/ StartsWith(line[1], "#")

\* the `for attr in parts` loop of parse_vendor_deps
RECURSIVE ScanAttrs(_, _)
ScanAttrs(parts, acc) ==
    IF parts = <<>> THEN acc
    ELSE LET attr == Head(parts) IN
         ScanAttrs(Tail(parts),
            IF attr = Vendored THEN [acc EXCEPT !.is_vendored = TRUE]
            ELSE IF StripPrefix(attr, "url=") # None
                 THEN [acc EXCEPT !.url = StripPrefix(attr, "url=")]
            ELSE IF StripPrefix(attr, "branch=") # None
                 THEN [acc EXCEPT !.branch = StripPrefix(attr, "branch=")]
            ELSE IF StripPrefix(attr, "prefix=") # None
                 THEN [acc EXCEPT !.prefix = StripPrefix(attr, "prefix=")]
            ELSE acc)

VendorDep(pattern, url, reference, prefix) ==
    [pattern |-> pattern, url |-> url, reference |-> reference, prefix |-> prefix]

\* a LineDeps that does not ask for the vendored marker: a url= is enough
LineDeps_unmarked(line) ==
    IF IsBlankOrComment(line) THEN <<>>
    ELSE LET pattern == Head(line)
             got == ScanAttrs(Tail(line),
                       [url |-> None, branch |-> None, prefix |-> None,
                        is_vendored |-> FALSE])
         IN IF got.url # None
            THEN <<VendorDep(pattern, got.url[1], got.branch, got.prefix)>>
            ELSE <<>>

\* the body of the `for line` loop: the records one line adds to deps
LineDeps(line) ==
    IF IsBlankOrComment(line) THEN <<>>
    ELSE LET pattern == Head(line)
             got == ScanAttrs(Tail(line),
                       [url |-> None, branch |-> None, prefix |-> None,
                        is_vendored |-> FALSE])
         IN IF ~got.is_vendored THEN <<>>
            ELSE IF got.url # None
                 THEN <<VendorDep(pattern, got.url[1], got.branch, got.prefix)>>
            ELSE <<>>

RECURSIVE ParseLines(_)
ParseLines(lines) ==
    IF lines = <<>> THEN <<>>
    ELSE LineDeps(Head(lines)) \o ParseLines(Tail(lines))

\* parse_vendor_deps(path), `file` being what is at path: None when it does not exist
parse_vendor_deps(file) ==
    IF file = None THEN <<>> ELSE ParseLines(file[1])

\* an AnyVendorAttr that knows a vendor line by its name= alone
AnyVendorAttr_named(parts) ==
    \E i \in 1..Len(parts) : StartsWith(parts[i], "name=")

AnyVendorAttr(parts) ==
    \E i \in 1..Len(parts) :
        \/ parts[i] = Vendored
        \/ StartsWith(parts[i], "name=")
        \/ StartsWith(parts[i], "url=")
        \/ StartsWith(parts[i], "branch=")

is_vendor_line_for_pattern(line, pattern) ==
    IF IsBlankOrComment(line) THEN FALSE
    ELSE IF Head(line) # pattern THEN FALSE
    ELSE AnyVendorAttr(Tail(line))

\* remove_vendor_lines(path, pattern): the file afterwards
remove_vendor_lines(file, pattern) ==
    IF file = None THEN None
    ELSE Some(SelectSeq(file[1], LAMBDA line : ~is_vendor_line_for_pattern(line, pattern)))

\* a filter_deps that ignores the filter
filter_deps_all(deps, filter) == deps

\* a filter_deps that selects every pattern the filter is a prefix of
filter_deps_prefix(deps, filter) ==
    IF filter = None THEN deps
    ELSE SelectSeq(deps, LAMBDA d :
            /\ Len(filter[1]) <= Len(d.pattern)
            /\ SubSeq(d.pattern, 1, Len(filter[1])) = filter[1])

filter_deps(deps, filter) ==
    IF filter = None THEN deps
    ELSE SelectSeq(deps, LAMBDA d : d.pattern = filter[1])

-----------------------------------------------------------------------------
(* git_set_attr::SetAttr, the attribute-storage collaborator of track_pattern *)

\* the key of an attribute token: "url=" of url=..., the token itself otherwise
AttrKey(tok) == tok[1]

\* `line` with attribute `attr` set: an attribute of the same key is replaced
\* in place, a new one is appended
SetOne(line, attr) ==
    IF \E i \in 2..Len(line) : AttrKey(line[i]) = AttrKey(attr)
    THEN [i \in 1..Len(line) |->
            IF i >= 2 /\ AttrKey(line[i]) = AttrKey(attr) THEN attr ELSE line[i]]
    ELSE Append(line, attr)

RECURSIVE SetAll(_, _)
SetAll(line, attrs) ==
    IF attrs = <<>> THEN line
    ELSE SetAll(SetOne(line, Head(attrs)), Tail(attrs))

IsLineFor(line, pattern) == ~IsBlankOrComment(line) /\ Head(line) = pattern

\* set_attr(pattern, attrs, None): the lines of the file afterwards
set_attr(lines, pattern, attrs) ==
    IF \E i \in 1..Len(lines) : IsLineFor(lines[i], pattern)
    THEN LET k == CHOOSE i \in 1..Len(lines) :
                    /\ IsLineFor(lines[i], pattern)
                    /\ \A j \in 1..(i - 1) : ~IsLineFor(lines[j], pattern)
         IN [lines EXCEPT ![k] = SetAll(lines[k], attrs)]
    ELSE Append(lines, SetAll(<<pattern>>, attrs))

-----------------------------------------------------------------------------
(* git_filter_tree: the pattern matcher *)

\* the segments of a raw pattern, split at "/" (no empty segment is kept)
RECURSIVE SplitSlash(_, _)
SplitSlash(raw, cur) ==
    IF raw = <<>> THEN (IF cur = <<>> THEN <<>> ELSE <<cur>>)
    ELSE IF Head(raw) = "/"
         THEN (IF cur = <<>> THEN <<>> ELSE <<cur>>) \o SplitSlash(Tail(raw), <<>>)
    ELSE SplitSlash(Tail(raw), Append(cur, Head(raw)))

compile(raw) ==
    [segments |-> SplitSlash(raw, <<>>),
     anchored |-> \E i \in 1..Len(raw) : raw[i] = "/",
     directory_only |-> raw # <<>> /\ raw[Len(raw)] = "/"]

\* one segment against one name; "*" stands for any run of characters
RECURSIVE GlobMatch(_, _)
GlobMatch(glob, name) ==
    IF glob = <<>> THEN name = <<>>
    ELSE IF Head(glob) = "*"
         THEN GlobMatch(Tail(glob), name) \/ (name # <<>> /\ GlobMatch(glob, Tail(name)))
    ELSE name # <<>> /\ Head(name) = Head(glob) /\ GlobMatch(Tail(glob), Tail(name))

\* the segments of an anchored pattern against a path; "**" stands for zero or
\* more whole segments
RECURSIVE MatchSegs(_, _)
MatchSegs(segs, path) ==
    IF segs = <<>> THEN path = <<>>
    ELSE IF Head(segs) = <<"**">>
         THEN MatchSegs(Tail(segs), path) \/ (path # <<>> /\ MatchSegs(segs, Tail(path)))
    ELSE path # <<>> /\ GlobMatch(Head(segs), Head(path)) /\ MatchSegs(Tail(segs), Tail(path))

\* matches(pattern, path, is_directory)
matches(pattern, path, is_directory) ==
    IF ~pattern.anchored
    THEN path # <<>> /\ Len(pattern.segments) = 1
         /\ GlobMatch(pattern.segments[1], path[Len(path)])
    ELSE IF pattern.directory_only
    THEN \E k \in 1..Len(path) :
            /\ k < Len(path) \/ is_directory
            /\ MatchSegs(pattern.segments, SubSeq(path, 1, k))
    ELSE MatchSegs(pattern.segments, path)

\* a blob at `path` is retained by the filter of the raw pattern
MatchesBlob(raw, path) == matches(compile(raw), path, FALSE)

-----------------------------------------------------------------------------
(* The Vendor operations: what each returns, and the attribute file it leaves *)

\* the attrs vector track_pattern builds
track_attrs(url, maybe_reference, maybe_prefix) ==
    <<Vendored, UrlAttr(url)>>
        \o (IF maybe_prefix # None THEN <<PrefixAttr(maybe_prefix[1])>> ELSE <<>>)
        \o (IF maybe_reference # None THEN <<BranchAttr(maybe_reference[1])>> ELSE <<>>)

\* track_pattern: [res, files]
track_pattern(is_bare, current_dir, fs, pattern, url, maybe_reference, maybe_prefix) ==
    IF require_non_bare(is_bare) # Ok
    THEN [res |-> require_non_bare(is_bare), files |-> fs]
    ELSE LET path == find_gitattributes(current_dir, fs)
             old == IF fs[path] = None THEN <<>> ELSE fs[path][1]
         IN [res |-> Ok,
             files |-> [fs EXCEPT ![path] =
                          Some(set_attr(old, pattern,
                                        track_attrs(url, maybe_reference, maybe_prefix)))]]

\* untrack_pattern: [res, files]
untrack_pattern(is_bare, current_dir, fs, pattern) ==
    IF require_non_bare(is_bare) # Ok
    THEN [res |-> require_non_bare(is_bare), files |-> fs]
    ELSE LET path == find_gitattributes(current_dir, fs)
         IN IF fs[path] = None
            THEN [res |-> Ok, files |-> fs]
            ELSE [res |-> Ok,
                  files |-> [fs EXCEPT ![path] = remove_vendor_lines(fs[path], pattern)]]

\* vendor_status: after the dependencies are resolved the body is todo!()
vendor_status(is_bare, current_dir, fs, maybe_pattern) ==
    IF require_non_bare(is_bare) # Ok THEN require_non_bare(is_bare)
    ELSE LET path == find_gitattributes(current_dir, fs)
             deps == filter_deps(parse_vendor_deps(fs[path]), maybe_pattern)
         IN Panic

\* vendor_fetch: with a non-empty dependency set the body is todo!()
vendor_fetch(is_bare, current_dir, fs, maybe_pattern) ==
    IF require_non_bare(is_bare) # Ok THEN require_non_bare(is_bare)
    ELSE LET path == find_gitattributes(current_dir, fs)
             deps == filter_deps(parse_vendor_deps(fs[path]), maybe_pattern)
         IN IF deps = <<>> THEN Err(NoFetchMsg) ELSE Panic

\* vendor_merge: the whole body is todo!()
vendor_merge(is_bare, current_dir, fs, maybe_pattern, merge_opts) == Panic

\* the Merge arm of run: the flags of the command line are dropped (`..`) and
\* vendor_merge is called with no options
run_merge(is_bare, current_dir, fs, pattern, no_commit, squash) ==
    vendor_merge(is_bare, current_dir, fs, pattern, None)

-----------------------------------------------------------------------------
(* The state *)

README == << <<"README", ".md">> >>
PyoCargo == << <<"pyo3">>, <<"Cargo", ".toml">> >>
PyoLib == << <<"pyo3">>, <<"src">>, <<"lib", ".rs">> >>
OtherTxt == << <<"other">>, <<"unrelated", ".txt">> >>
LibTxt == << <<"lib", ".txt">> >>

\* the paths the model follows in the host repository
HostPaths == {README, PyoCargo, PyoLib, OtherTxt, LibTxt}

\* the paths the user writes in the host
UserPaths == {README, PyoCargo}

\* what a tree holds at a path: nothing, the user's blob, the upstream's blob
Absent == "absent"
HostContent == "host"
UpContent == "upstream"

HostCommit(n) == <<"host", n>>
\* the commit of the upstream's main branch
UpCommit == <<"upstream", 0>>

EmptyTree == [p \in HostPaths |-> Absent]

\* the upstream repository's main branch (setup_upstream)
UpstreamTree ==
    [p \in HostPaths |-> IF p \in {PyoCargo, PyoLib, OtherTxt, LibTxt} THEN UpContent ELSE Absent]

Call(op, arg, nc, sq, res) == [op |-> op, arg |-> arg, nc |-> nc, sq |-> sq, res |-> res]

Filters == {None} \cup {Some(p) : p \in Patterns}

\* the (pattern, branch) pairs the user tracks: one with a branch, one without
TrackCalls == {<<PatTxt, Some(Main)>>, <<PatPyo, None>>}

DepLine(pattern, branch) ==
    <<pattern, Vendored, UrlAttr(UrlUp)>> \o (IF branch # None THEN <<BranchAttr(branch[1])>> ELSE <<>>)

\* the contents the tests write with write_gitattributes
TestFiles ==
    { <<DepLine(PatPyo, Some(Main))>>,
      <<DepLine(PatTxt, Some(Main))>>,
      <<DepLine(PatTxt, None)>>,
      << << <<"#">>, <<"comment">> >>, <<PatTxt, Diff>> >>,
      << <<PatTxt, Vendored>>, <<PatPyo, UrlAttr(UrlUp), BranchAttr(Main)>> >>,
      <<DepLine(<<"pyo3", "/">>, Some(Main))>> }

FileLen(file) == IF file = None THEN 0 ELSE Len(file[1])

TotalLines(fs) == FileLen(fs[RootDir]) + FileLen(fs[SubDir])

Init ==
    /\ bare \in BOOLEAN
    /\ cwd = RootDir
    /\ files = [d \in Dirs |-> None]
    /\ head = IF bare THEN None ELSE Some([id |-> HostCommit(0), tree |-> EmptyTree, parents |-> <<>>])
    /\ index = EmptyTree
    /\ worktree = EmptyTree
    /\ refs = None
    /\ merge_state = None
    /\ last = Call("init", None, FALSE, FALSE, Ok)

-----------------------------------------------------------------------------
(* The user's own steps (the helpers of tests/vendor.rs); none on a bare repository *)

EnvChdir(d) ==
    /\ ~bare
    /\ cwd' = d
    /\ last' = Call("env", None, FALSE, FALSE, Ok)
    /\ UNCHANGED <<bare, files, repo_vars>>

EnvWriteGitattributes(content) ==
    /\ ~bare
    /\ TotalLines([files EXCEPT ![RootDir] = Some(content)]) <= MaxLines
    /\ files' = [files EXCEPT ![RootDir] = Some(content)]
    /\ last' = Call("env", None, FALSE, FALSE, Ok)
    /\ UNCHANGED <<bare, cwd, repo_vars>>

\* fs::write(path) then index.add_all([path])
EnvStage(path) ==
    /\ ~bare
    /\ worktree' = [worktree EXCEPT ![path] = HostContent]
    /\ index' = [index EXCEPT ![path] = HostContent]
    /\ last' = Call("env", None, FALSE, FALSE, Ok)
    /\ UNCHANGED <<bare, cwd, files, head, refs, merge_state>>

\* commit_all: the index is committed on top of HEAD
EnvCommitAll ==
    /\ ~bare
    /\ head[1].id[2] < MaxCommits
    /\ head' = Some([id |-> HostCommit(head[1].id[2] + 1), tree |-> index,
                     parents |-> <<head[1].id>>])
    /\ last' = Call("env", None, FALSE, FALSE, Ok)
    /\ UNCHANGED <<bare, cwd, files, index, worktree, refs, merge_state>>

-----------------------------------------------------------------------------
(* The program's operations *)

Track(pattern, url, maybe_reference, maybe_prefix) ==
    LET r == track_pattern(bare, cwd, files, pattern, url, maybe_reference, maybe_prefix)
    IN /\ TotalLines(r.files) <= MaxLines
       /\ files' = r.files
       /\ last' = Call("track", Some(<<pattern, url, maybe_reference, maybe_prefix>>),
                       FALSE, FALSE, r.res)
       /\ UNCHANGED <<bare, cwd, repo_vars>>

Untrack(pattern) ==
    LET r == untrack_pattern(bare, cwd, files, pattern)
    IN /\ files' = r.files
       /\ last' = Call("untrack", Some(pattern), FALSE, FALSE, r.res)
       /\ UNCHANGED <<bare, cwd, repo_vars>>

Status(maybe_pattern) ==
    /\ last' = Call("status", maybe_pattern, FALSE, FALSE,
                    vendor_status(bare, cwd, files, maybe_pattern))
    /\ UNCHANGED <<bare, cwd, files, repo_vars>>

\* a fetch that also checks the fetched content out, as a pull would
Fetch_checkout(maybe_pattern) ==
    /\ last' = Call("fetch", maybe_pattern, FALSE, FALSE,
                    vendor_fetch(bare, cwd, files, maybe_pattern))
    /\ index' = [index EXCEPT ![PyoCargo] = UpContent]
    /\ worktree' = [worktree EXCEPT ![PyoCargo] = UpContent]
    /\ UNCHANGED <<bare, cwd, files, head, refs, merge_state>>

Fetch(maybe_pattern) ==
    /\ last' = Call("fetch", maybe_pattern, FALSE, FALSE,
                    vendor_fetch(bare, cwd, files, maybe_pattern))
    /\ UNCHANGED <<bare, cwd, files, repo_vars>>

Merge(maybe_pattern, no_commit, squash) ==
    /\ last' = Call("merge", maybe_pattern, no_commit, squash,
                    run_merge(bare, cwd, files, maybe_pattern, no_commit, squash))
    /\ UNCHANGED <<bare, cwd, files, repo_vars>>

Next ==
    \/ \E d \in Dirs : EnvChdir(d)
    \/ \E c \in TestFiles : EnvWriteGitattributes(c)
    \/ \E p \in UserPaths : EnvStage(p)
    \/ EnvCommitAll
    \/ \E t \in TrackCalls : Track(t[1], UrlUp, t[2], None)
    \/ \E p \in Patterns : Untrack(p)
    \/ \E f \in Filters : Status(f)
    \/ \E f \in Filters : Fetch(f)
    \/ \E f \in Filters, nc \in BOOLEAN, sq \in BOOLEAN : Merge(f, nc, sq)

Spec == Init /\ [][Next]_vars

-----------------------------------------------------------------------------
(* git_filter_tree::FilterTree, the tree filter behind git-filter-tree *)

\* further raw patterns: "pyo3/", "pyo3/src/"
PatPyoSlash == <<"pyo3", "/">>
PatPyoSrc == <<"pyo3", "/", "src", "/">>

\* the patterns given on the command line of git-filter-tree
FilterPatterns == {PatTxt, PatPyo, PatPyoSlash, PatPyoSrc}

\* patterns a command line holds at most
MaxPatterns == 2

PatternLists == UNION {[1..n -> FilterPatterns] : n \in 1..MaxPatterns}

\* a tree is the map of its blobs, path -> content; a directory exists where a
\* blob lies beneath it
Present(T) == {p \in DOMAIN T : T[p] # Absent}

IsPrefix(d, p) == Len(d) <= Len(p) /\ SubSeq(p, 1, Len(d)) = d

Under(T, d) == {p \in Present(T) : Len(d) < Len(p) /\ IsPrefix(d, p)}

EntryNames(T, d) == {p[Len(d) + 1] : p \in Under(T, d)}

\* the object id of the tree at directory d: content-addressed, it is decided
\* by the entries beneath d and nothing else
SubtreeId(T, d) == {<<SubSeq(p, Len(d) + 1, Len(p)), T[p]>> : p \in Under(T, d)}

\* an AnyPattern that stops at the first pattern of the list
AnyPattern_first(pats, path, is_directory, anchored_only) ==
    /\ pats # <<>>
    /\ anchored_only => compile(Head(pats)).anchored
    /\ matches(compile(Head(pats)), path, is_directory)

\* some pattern of the list matches the path (only anchored patterns count
\* when a whole directory is selected)
RECURSIVE AnyPattern(_, _, _, _)
AnyPattern(pats, path, is_directory, anchored_only) ==
    IF pats = <<>> THEN FALSE
    ELSE LET pattern == compile(Head(pats))
         IN \/ /\ anchored_only => pattern.anchored
               /\ matches(pattern, path, is_directory)
            \/ AnyPattern(Tail(pats), path, is_directory, anchored_only)

\* a FilterDir that descends into every directory and writes it anew, also
\* when the whole directory is selected
RECURSIVE FilterDir_rewrite(_, _, _)
FilterDir_rewrite(T, d, pats) ==
    LET Entry(n) ==
            LET path == Append(d, n)
            IN IF path \in Present(T)
               THEN [kept |-> IF AnyPattern(pats, path, FALSE, FALSE) THEN {path} ELSE {},
                     written |-> {}]
               ELSE FilterDir_rewrite(T, path, pats)
        kept == UNION {Entry(n).kept : n \in EntryNames(T, d)}
        written == UNION {Entry(n).written : n \in EntryNames(T, d)}
    IN [kept |-> kept,
        written |-> written \cup (IF kept # {} \/ d = <<>> THEN {d} ELSE {})]

\* the filter of the tree at directory d: the blobs kept beneath d and the
\* directories for which a new tree object is written
RECURSIVE FilterDir(_, _, _)
FilterDir(T, d, pats) ==
    LET Entry(n) ==
            LET path == Append(d, n)
            IN IF path \in Present(T)
               THEN [kept |-> IF AnyPattern(pats, path, FALSE, FALSE) THEN {path} ELSE {},
                     written |-> {}]
               ELSE IF AnyPattern(pats, path, TRUE, TRUE)
               THEN [kept |-> Under(T, path), written |-> {}]
               ELSE FilterDir(T, path, pats)
        kept == UNION {Entry(n).kept : n \in EntryNames(T, d)}
        written == UNION {Entry(n).written : n \in EntryNames(T, d)}
    IN [kept |-> kept,
        written |-> written \cup (IF kept # {} \/ d = <<>> THEN {d} ELSE {})]

\* filter_by_patterns(tree, patterns): the filtered tree and the directories
\* whose tree object was written anew
filter_by_patterns(T, pats) ==
    LET r == FilterDir(T, <<>>, pats)
    IN [kind |-> "Ok",
        tree |-> [p \in DOMAIN T |-> IF p \in r.kept THEN T[p] ELSE Absent],
        written |-> r.written]

\* the trees git-filter-tree is run on
FilterTrees == [HostPaths -> {Absent, UpContent}]

\* the treeish resolves to a commit of the repository
FilterInit ==
    /\ bare = FALSE
    /\ cwd = RootDir
    /\ files = [d \in Dirs |-> None]
    /\ \E T \in FilterTrees :
          head = Some([id |-> UpCommit, tree |-> T, parents |-> <<>>])
    /\ index = EmptyTree
    /\ worktree = EmptyTree
    /\ refs = None
    /\ merge_state = None
    /\ last = Call("init", None, FALSE, FALSE, Ok)

\* git-filter-tree <treeish> <patterns>...
FilterTree(pats) ==
    /\ last' = Call("filter", pats, FALSE, FALSE, filter_by_patterns(head[1].tree, pats))
    /\ UNCHANGED <<bare, cwd, files, repo_vars>>

FilterNext == \E pats \in PatternLists : FilterTree(pats)

FilterSpec == FilterInit /\ [][FilterNext]_vars

-----------------------------------------------------------------------------
(* The attribute file on its own: track, untrack, parse and select *)

NameAttr(n) == <<"name=">> \o n

OwnerRepo == <<"o/r">>
UrlOther == <<"other-upstream">>
Dev == <<"dev">>
VendorDir == <<"vendor">>

\* the lines the attribute files of the unit tests are made of
AttrLines ==
    { <<>>,
      << <<"#">>, <<"comment">> >>,
      <<PatTxt, Diff>>,
      <<PatTxt, Vendored, UrlAttr(UrlUp), BranchAttr(Main)>>,
      <<PatTxt, Vendored, NameAttr(OwnerRepo), UrlAttr(UrlOther)>>,
      <<PatTxt, NameAttr(OwnerRepo), UrlAttr(UrlUp), BranchAttr(Main)>>,
      <<PatTxt, Vendored, NameAttr(OwnerRepo), BranchAttr(Main)>>,
      <<PatTxt, Vendored, UrlAttr(UrlUp), Diff>>,
      <<PatPyo, Vendored, UrlAttr(UrlOther), PrefixAttr(VendorDir)>> }

AttrFiles == {None} \cup {Some(f) : f \in UNION {[1..n -> AttrLines] : n \in 0..MaxLines}}

\* the track_pattern calls: a first declaration, then other urls, a branch
\* given and left out, a prefix given and left out
AttrTrackCalls ==
    { <<PatTxt, UrlUp, Some(Main), None>>,
      <<PatTxt, UrlOther, None, None>>,
      <<PatTxt, UrlUp, Some(Dev), Some(VendorDir)>>,
      <<PatPyo, UrlUp, None, None>> }

\* the filters given to status, fetch and merge: declared patterns, a prefix
\* of one and a glob that matches one
AttrFilters == {None, Some(PatTxt), Some(PatPyo), Some(<<"pyo3", "/">>), Some(<<"*">>)}

AttrInit ==
    /\ bare = FALSE
    /\ cwd = RootDir
    /\ \E f \in AttrFiles : files = [d \in Dirs |-> IF d = RootDir THEN f ELSE None]
    /\ head = Some([id |-> HostCommit(0), tree |-> EmptyTree, parents |-> <<>>])
    /\ index = EmptyTree
    /\ worktree = EmptyTree
    /\ refs = None
    /\ merge_state = None
    /\ last = Call("init", None, FALSE, FALSE, Ok)

\* parse_vendor_deps(&path) of the attribute file in use
ParseDeps ==
    /\ last' = Call("parse", None, FALSE, FALSE,
                    [kind |-> "Ok",
                     deps |-> parse_vendor_deps(files[find_gitattributes(cwd, files)])])
    /\ UNCHANGED <<bare, cwd, files, repo_vars>>

\* the dependency set status, fetch and merge resolve:
\* filter_deps(&parse_vendor_deps(&path)?, maybe_pattern)
SelectDeps(maybe_pattern) ==
    /\ last' = Call("select", maybe_pattern, FALSE, FALSE,
                    [kind |-> "Ok",
                     deps |-> filter_deps(
                                 parse_vendor_deps(files[find_gitattributes(cwd, files)]),
                                 maybe_pattern)])
    /\ UNCHANGED <<bare, cwd, files, repo_vars>>

AttrNext ==
    \/ \E c \in AttrTrackCalls : Track(c[1], c[2], c[3], c[4])
    \/ \E p \in Patterns : Untrack(p)
    \/ ParseDeps
    \/ \E f \in AttrFilters : SelectDeps(f)

AttrSpec == AttrInit /\ [][AttrNext]_vars

-----------------------------------------------------------------------------
(* Vocabulary of the claims *)

ProgramOps == {"track", "untrack", "status", "fetch", "merge"}

Contains(msg, piece) == \E i \in 1..Len(msg) : msg[i] = piece

\* the attribute file of the current directory: the nearest one from the
\* current directory up to the root of the working tree
AttrFile == IF files[cwd] # None THEN files[cwd] ELSE files[RootDir]

\* a line declares a dependency: a pattern, the vendored marker and a url
IsDeclaration(line) ==
    /\ line # <<>>
    /\ line[1][1] # "#"
    /\ \E j \in 2..Len(line) : line[j] = <<"vendored">>
    /\ \E j \in 2..Len(line) : line[j][1] = "url="

DeclaredPatterns(file) ==
    IF file = None THEN {}
    ELSE {file[1][i][1] : i \in {j \in 1..Len(file[1]) : IsDeclaration(file[1][j])}}

SelectedPatterns(file, filter) ==
    IF filter = None THEN DeclaredPatterns(file)
    ELSE {p \in DeclaredPatterns(file) : p = filter[1]}

\* this step is a call of vendor_merge right after a call of vendor_fetch with
\* the same filter, the index matching HEAD
MergeAfterFetch ==
    /\ ~bare
    /\ last.op = "fetch"
    /\ last'.op = "merge"
    /\ last'.arg = last.arg
    /\ index = head[1].tree

\* ... with the one selected dependency `pattern`, whose destination holds
\* nothing of the host's: nothing can conflict
CleanMergeOf(pattern) ==
    /\ MergeAfterFetch
    /\ SelectedPatterns(AttrFile, last'.arg) = {pattern}
    /\ \A path \in HostPaths : MatchesBlob(pattern, path) => head[1].tree[path] = Absent

\* the paths both sides added with different content (no merge base is recorded)
ConflictPaths ==
    {path \in HostPaths :
        /\ \E p \in SelectedPatterns(AttrFile, last'.arg) : MatchesBlob(p, path)
        /\ head[1].tree[path] # Absent
        /\ UpstreamTree[path] # Absent
        /\ head[1].tree[path] # UpstreamTree[path]}

-----------------------------------------------------------------------------
(* The claims *)

\* C1: on a bare repository every call of track_pattern, untrack_pattern,
\* vendor_status, vendor_fetch and vendor_merge returns an error value and
\* changes neither the repository nor the attribute files.
C1_BareRejectsAll ==
    [][bare /\ last'.op \in ProgramOps
         => last'.res.kind = "Err" /\ UNCHANGED <<files, repo_vars>>]_vars

\* C2: vendor_merge called with an index that differs from HEAD's tree (on a
\* non-bare repository with a selected dependency) returns an error whose
\* message contains "uncommitted changes", and HEAD, index and working tree
\* are as before.
C2_DirtyIndexRejected ==
    [][(/\ ~bare
        /\ last'.op = "merge"
        /\ SelectedPatterns(AttrFile, last'.arg) # {}
        /\ index # head[1].tree)
         => /\ last'.res.kind = "Err"
            /\ Contains(last'.res.msg, "uncommitted changes")
            /\ UNCHANGED <<head, index, worktree>>]_vars

\* C4: vendor_fetch(None) followed by vendor_merge(None) where the only
\* dependency has pattern P and nothing conflicts: the new HEAD tree holds every
\* upstream path P matches, with the upstream's content, and no upstream path
\* that P does not match.
C4_MergeVendorsMatchedPaths ==
    [][\A P \in Patterns :
         CleanMergeOf(P) /\ last'.arg = None /\ ~last'.nc
           => \A path \in HostPaths :
                 UpstreamTree[path] # Absent /\ head[1].tree[path] = Absent
                   => head'[1].tree[path] =
                         IF MatchesBlob(P, path) THEN UpstreamTree[path] ELSE Absent]_vars

\* C5: vendor_fetch on a non-bare repository whose selected dependency set is
\* empty (no attribute file, no declaration in it, or a filter that equals no
\* declared pattern) returns an error whose message contains "No vendored
\* dependencies to fetch", and nothing of the repository has changed.
C5_FetchNoDependencies ==
    [][(/\ ~bare
        /\ last'.op = "fetch"
        /\ SelectedPatterns(AttrFile, last'.arg) = {})
         => /\ last'.res.kind = "Err"
            /\ Contains(last'.res.msg, "No vendored dependencies to fetch")
            /\ UNCHANGED <<files, repo_vars>>]_vars

\* C5, its case: vendor_fetch was called with a filter that equals none of the
\* patterns the attribute file declares, and returned that error
C5_Witness ==
    /\ ~bare
    /\ last.op = "fetch"
    /\ last.arg # None
    /\ DeclaredPatterns(AttrFile) # {}
    /\ last.arg[1] \notin DeclaredPatterns(AttrFile)
    /\ last.res = Err(<<"No vendored dependencies to fetch">>)

\* C6: vendor_merge on a non-bare repository whose selected dependency set is
\* empty returns an error whose message contains "No vendored dependencies to
\* merge", and HEAD, index and working tree are as before.
C6_MergeNoDependencies ==
    [][(/\ ~bare
        /\ last'.op = "merge"
        /\ SelectedPatterns(AttrFile, last'.arg) = {})
         => /\ last'.res.kind = "Err"
            /\ Contains(last'.res.msg, "No vendored dependencies to merge")
            /\ UNCHANGED <<head, index, worktree>>]_vars

\* C7: a vendor_merge in which a dependency conflicts creates no commit, leaves
\* the merge state persisted (pending parents HEAD and the vendor commit), returns
\* its report, and writes no conflicted path as a resolved blob.
C7_ConflictLeavesMergeState ==
    [][MergeAfterFetch /\ ConflictPaths # {}
         => /\ head' = head
            /\ merge_state' # None
            /\ merge_state'[1].parents = <<head[1].id, UpCommit>>
            /\ last'.res.kind = "Ok"
            /\ \A path \in ConflictPaths : index'[path] # UpstreamTree[path]]_vars

\* C9: a clean vendor_merge that commits creates a commit whose parents are
\* [previous HEAD, vendor commit], and [previous HEAD] alone when --squash is
\* given on the command line.
C9_CommitParents ==
    [][\A P \in Patterns :
         CleanMergeOf(P) /\ ~last'.nc
           => /\ head'[1].id # head[1].id
              /\ head'[1].parents =
                    IF last'.sq THEN <<head[1].id>> ELSE <<head[1].id, UpCommit>>]_vars

\* C10: a clean vendor_merge with --no-commit stages the merged content and
\* stops: HEAD is the commit it was, and the call returns its report.
C10_NoCommitStages ==
    [][\A P \in Patterns :
         CleanMergeOf(P) /\ last'.nc
           => /\ head' = head
              /\ last'.res.kind = "Ok"
              /\ \A path \in HostPaths :
                    MatchesBlob(P, path) /\ UpstreamTree[path] # Absent
                      => index'[path] = UpstreamTree[path]]_vars

-----------------------------------------------------------------------------
(* The claims about the tree filter *)

\* the directories of a tree
TreeDirs(T) == UNION {{SubSeq(p, 1, k) : k \in 1..(Len(p) - 1)} : p \in Present(T)}

\* literal directory names, and the two ways to write "all of d"
DirNames == {<<"pyo3">>, <<"other">>}
SlashOf(d) == d \o <<"/">>
StarOf(d) == d \o <<"/", "**">>

\* "d/" and "d/**" match the same nodes of T, among them d itself and every
\* path beneath d, and filter T to the same tree
SlashLikeGlobstar(d, T) ==
    /\ \A p \in Present(T) :
          /\ matches(compile(SlashOf(d)), p, FALSE) = matches(compile(StarOf(d)), p, FALSE)
          /\ IsPrefix(<<d>>, p) => matches(compile(SlashOf(d)), p, FALSE)
    /\ \A dir \in TreeDirs(T) :
          /\ matches(compile(SlashOf(d)), dir, TRUE) = matches(compile(StarOf(d)), dir, TRUE)
          /\ IsPrefix(<<d>>, dir) => matches(compile(SlashOf(d)), dir, TRUE)
    /\ filter_by_patterns(T, <<SlashOf(d)>>).tree = filter_by_patterns(T, <<StarOf(d)>>).tree

\* the matcher and filter part of C11 on the tree git-filter-tree is run on
SlashLikeGlobstarHere == \A d \in DirNames : SlashLikeGlobstar(d, head[1].tree)

\* C11: for a literal directory name d the patterns "d/" and "d/**" behave
\* identically: they match the same paths (d itself and every path beneath it),
\* filter a tree to the same tree id, and a clean fetch+merge whose dependency is
\* declared with either leaves the same host tree, the host's tree with every
\* upstream path beneath d added.
C11_TrailingSlashIsGlobstar ==
    [][\A d \in DirNames :
         /\ SlashLikeGlobstar(d, UpstreamTree)
         /\ \A P \in {SlashOf(d), StarOf(d)} :
               CleanMergeOf(P) /\ ~last'.nc
                 => head'[1].tree =
                       [path \in HostPaths |->
                          IF IsPrefix(<<d>>, path) THEN UpstreamTree[path]
                          ELSE head[1].tree[path]]]_vars

SamePatterns(a, b) == {a[i] : i \in DOMAIN a} = {b[i] : i \in DOMAIN b}

\* C12: two calls of the filter on the same tree whose pattern lists hold the
\* same patterns (the same list again, a permutation of it, or one with a
\* pattern repeated) yield the same tree id.
C12_FilterDeterministic ==
    [][(/\ last.op = "filter"
        /\ last'.op = "filter"
        /\ SamePatterns(last.arg, last'.arg))
         => last'.res.tree = last.res.tree]_vars

\* C12, its case: a call with two different patterns each of which retains a
\* path the other does not, so that the order they are tried in could matter
C12_Witness ==
    /\ last.op = "filter"
    /\ Len(last.arg) = 2
    /\ last.res.tree # filter_by_patterns(head[1].tree, <<last.arg[1]>>).tree
    /\ last.res.tree # filter_by_patterns(head[1].tree, <<last.arg[2]>>).tree

\* a directory-level pattern of the list matches the directory's own path
DirSelected(pats, d) ==
    \E i \in DOMAIN pats :
        compile(pats[i]).anchored /\ matches(compile(pats[i]), d, TRUE)

Pruned(T, out, d) == {p \in Under(T, d) : out[p] = Absent}

\* a directory whose own path is selected is in the output with its original
\* object id and no tree object is written for it or beneath it
SharedWhenSelected(T, pats, res) ==
    \A d \in TreeDirs(T) :
        DirSelected(pats, d)
          => /\ SubtreeId(res.tree, d) = SubtreeId(T, d)
             /\ \A w \in res.written : ~IsPrefix(d, w)

\* C13 as stated: a directory whose own path is matched by a directory-level
\* pattern keeps its original object id and no new tree object is written for
\* it; every directory with at least one pruned descendant is rewritten as a
\* new tree object.
C13_StructuralSharing ==
    [][last'.op = "filter"
         => /\ SharedWhenSelected(head[1].tree, last'.arg, last'.res)
            /\ \A d \in TreeDirs(head[1].tree) :
                  Pruned(head[1].tree, last'.res.tree, d) # {}
                    => /\ d \in last'.res.written
                       /\ SubtreeId(last'.res.tree, d) # {}]_vars

\* C13 as amended: ... a directory with at least one pruned and at least one
\* retained descendant is rewritten as a new tree object, with a new id; a
\* directory all of whose descendants are pruned is absent from the output and
\* no tree object is written for it.
C13_StructuralSharingAmended ==
    [][last'.op = "filter"
         => /\ SharedWhenSelected(head[1].tree, last'.arg, last'.res)
            /\ \A d \in TreeDirs(head[1].tree) :
                  Pruned(head[1].tree, last'.res.tree, d) # {}
                    => IF Pruned(head[1].tree, last'.res.tree, d) # Under(head[1].tree, d)
                       THEN /\ d \in last'.res.written
                            /\ SubtreeId(last'.res.tree, d) # SubtreeId(head[1].tree, d)
                            /\ SubtreeId(last'.res.tree, d) # {}
                       ELSE /\ d \notin last'.res.written
                            /\ SubtreeId(last'.res.tree, d) = {}]_vars

\* C13, its case: one call that keeps a selected directory whole beneath a
\* directory it rewrites, and drops another directory entirely
C13_Witness ==
    /\ last.op = "filter"
    /\ \E d \in TreeDirs(head[1].tree), e \in TreeDirs(head[1].tree) :
          /\ d # e
          /\ IsPrefix(e, d)
          /\ DirSelected(last.arg, d)
          /\ SubtreeId(last.res.tree, d) = SubtreeId(head[1].tree, d)
          /\ e \in last.res.written
          /\ Pruned(head[1].tree, last.res.tree, e) # {}
    /\ \E d \in TreeDirs(head[1].tree) : SubtreeId(last.res.tree, d) = {}

-----------------------------------------------------------------------------
(* The claims about the attribute file *)

\* the attribute tokens of a line
Toks(line) == {line[j] : j \in 2..Len(line)}

WithKey(line, key) == {t \in Toks(line) : t[1] = key}

\* a line that is neither blank nor a comment
IsEntry(line) == line # <<>> /\ line[1][1] # "#"

\* an attribute of the vendor attribute set
IsVendorAttr(tok) == tok[1] \in {"vendored", "name=", "url=", "branch=", "prefix="}

LinesOf(file) == IF file = None THEN <<>> ELSE file[1]

\* C14: untrack_pattern(p) removes only the vendor attribute set of p: a
\* non-vendor attribute standing on a line of p together with vendor attributes
\* is still in the file on a line of p afterwards, and every other line (other
\* patterns, non-vendor lines of p, comments, blank lines) is kept.
C14_UntrackKeepsOtherAttrs ==
    [][last'.op = "untrack"
         => LET p == last'.arg[1]
                old == LinesOf(AttrFile)
                new == LinesOf(AttrFile')
                OfP(line) == IsEntry(line) /\ line[1] = p
                             /\ \E t \in Toks(line) : IsVendorAttr(t)
            IN /\ \A i \in 1..Len(old) :
                     OfP(old[i])
                       => \A t \in Toks(old[i]) :
                             ~IsVendorAttr(t)
                               => \E j \in 1..Len(new) :
                                     /\ IsEntry(new[j])
                                     /\ new[j][1] = p
                                     /\ t \in Toks(new[j])
               /\ \A i \in 1..Len(old) :
                     ~OfP(old[i]) => \E j \in 1..Len(new) : new[j] = old[i]]_vars

\* C15: after track_pattern(p, url, branch, prefix) on a file with at most one
\* line for p, the file holds exactly one line for p, and that line carries the
\* vendored marker, url=<url> and no other url, branch=<branch> exactly when a
\* branch was given and prefix=<prefix> exactly when a prefix was given.
C15_TrackDeclaresLatest ==
    [][(/\ last'.op = "track"
        /\ Cardinality({i \in 1..Len(LinesOf(AttrFile)) :
                           IsEntry(LinesOf(AttrFile)[i])
                           /\ LinesOf(AttrFile)[i][1] = last'.arg[1][1]}) <= 1)
         => LET p == last'.arg[1][1]
                url == last'.arg[1][2]
                branch == last'.arg[1][3]
                prefix == last'.arg[1][4]
                new == LinesOf(AttrFile')
                idx == {i \in 1..Len(new) : IsEntry(new[i]) /\ new[i][1] = p}
            IN /\ last'.res = Ok
               /\ Cardinality(idx) = 1
               /\ \A i \in idx :
                     /\ Vendored \in Toks(new[i])
                     /\ WithKey(new[i], "url=") = {UrlAttr(url)}
                     /\ WithKey(new[i], "branch=") =
                           IF branch = None THEN {} ELSE {BranchAttr(branch[1])}
                     /\ WithKey(new[i], "prefix=") =
                           IF prefix = None THEN {} ELSE {PrefixAttr(prefix[1])}]_vars

\* C16: vendor_status(None) on a non-bare repository returns Ok, whatever the
\* declared dependencies: none and no attribute file, a dependency with a
\* branch, a dependency without one.
C16_StatusOk ==
    [][~bare /\ last'.op = "status" /\ last'.arg = None
         => last'.res.kind = "Ok"]_vars

\* C17: a call of vendor_status or vendor_fetch, whatever it returns, leaves
\* the index, the working tree, HEAD, the attribute files and the merge state
\* as they were; only vendor_fetch with a non-empty selection may change a
\* remote-tracking reference.
C17_StatusFetchFrame ==
    [][last'.op \in {"status", "fetch"}
         => /\ UNCHANGED <<files, head, index, worktree, merge_state>>
            /\ refs' # refs
                 => /\ last'.op = "fetch"
                    /\ ~bare
                    /\ SelectedPatterns(AttrFile, last'.arg) # {}]_vars

\* C17, its case: vendor_fetch ran with a selected dependency (past its error
\* returns) while the index differs from HEAD
C17_Witness ==
    /\ ~bare
    /\ last.op = "fetch"
    /\ SelectedPatterns(AttrFile, last.arg) # {}
    /\ last.res.kind # "Err"
    /\ index # head[1].tree

\* `deps` holds one record per line that Recognized accepts, in file order,
\* with the line's pattern, url and branch
ParsedAs(lines, deps, Recognized(_)) ==
    LET idx == {i \in 1..Len(lines) : Recognized(lines[i])}
    IN /\ Len(deps) = Cardinality(idx)
       /\ \A k \in 1..Len(deps) :
             LET i == CHOOSE i \in idx : Cardinality({j \in idx : j <= i}) = k
             IN /\ deps[k].pattern = lines[i][1]
                /\ UrlAttr(deps[k].url) \in Toks(lines[i])
                /\ deps[k].reference = None <=> WithKey(lines[i], "branch=") = {}
                /\ deps[k].reference # None
                     => BranchAttr(deps[k].reference[1]) \in Toks(lines[i])

\* a line that carries at least name= and url=
IsNamedUrlLine(line) ==
    IsEntry(line) /\ WithKey(line, "name=") # {} /\ WithKey(line, "url=") # {}

C19_SelectByEquality ==
    [][last'.op = "select"
         => LET all == parse_vendor_deps(AttrFile)
                deps == last'.res.deps
                idx == {i \in 1..Len(all) : Some(all[i].pattern) = last'.arg}
            IN IF last'.arg = None THEN deps = all
               ELSE /\ Len(deps) = Cardinality(idx)
                    /\ \A k \in 1..Len(deps) :
                          deps[k] = all[CHOOSE i \in idx :
                                           Cardinality({j \in idx : j <= i}) = k]]_vars

\* C19, its case: a filter that is a proper prefix of a declared pattern, or a
\* glob that matches one as a path, selected nothing
C19_Witness ==
    /\ last.op = "select"
    /\ last.arg # None
    /\ \E p \in DeclaredPatterns(AttrFile) :
          /\ p # last.arg[1]
          /\ \/ IsPrefix(last.arg[1], p)
             \/ GlobMatch(last.arg[1], p)
    /\ last.res.deps = <<>>

\* the decision of the three-way merge for one path: the content the merged
\* tree holds, or "conflict"
ThreeWay(base, ours, theirs) ==
    IF theirs = base THEN ours
    ELSE IF ours = base THEN theirs
    ELSE IF ours = theirs THEN ours
    ELSE "conflict"

\* C20: a vendor_merge of one dependency P decides every path of P's
\* destination by the three-way rule, the base being the empty tree while no
\* merge base is recorded: without a conflict the index holds at each such path
\* what the rule gives (upstream paths are added, the host's own are kept).
C20_ThreeWayMerge ==
    [][\A P \in Patterns :
         (/\ MergeAfterFetch
          /\ SelectedPatterns(AttrFile, last'.arg) = {P}
          /\ ConflictPaths = {})
           => \A path \in HostPaths :
                 MatchesBlob(P, path)
                   => index'[path] = ThreeWay(Absent, head[1].tree[path], UpstreamTree[path])]_vars

-----------------------------------------------------------------------------
(* The claims about several dependencies and about untrack followed by parse *)

\* the declared patterns in lexical order of their strings: "*.txt" < "pyo3/**"
LexicalOrder == <<PatTxt, PatPyo>>

\* the tree after one dependency P is merged into `tree` with the empty base
MergeOne(tree, P) ==
    [path \in HostPaths |->
        IF MatchesBlob(P, path)
        THEN ThreeWay(Absent, tree[path], UpstreamTree[path])
        ELSE tree[path]]

RECURSIVE MergeInOrder(_, _)
MergeInOrder(tree, order) ==
    IF order = <<>> THEN tree
    ELSE MergeInOrder(MergeOne(tree, Head(order)), Tail(order))

\* C21: a vendor_merge that selects both dependencies merges them one after
\* another in lexical order of their patterns, the later one against the state
\* the earlier one left; whatever the order of the two lines in the attribute
\* file, the resulting host tree is that one tree.
C21_LexicalOrderMerge ==
    [][(/\ MergeAfterFetch
        /\ last'.arg = None
        /\ ~last'.nc
        /\ SelectedPatterns(AttrFile, None) = {PatTxt, PatPyo}
        /\ ConflictPaths = {})
         => head'[1].tree = MergeInOrder(head[1].tree, LexicalOrder)]_vars

\* C22: after untrack_pattern(p) parse_vendor_deps returns no dependency with
\* pattern p, and its dependencies with other patterns are those parsed before
\* the call, in the same order and with the same fields; a second
\* untrack_pattern(p) right after the first leaves the attribute files as they
\* are.
C22_UntrackThenParse ==
    [][last'.op = "untrack"
         => LET p == last'.arg[1]
                before == parse_vendor_deps(AttrFile)
                after == parse_vendor_deps(AttrFile')
            IN /\ \A k \in 1..Len(after) : after[k].pattern # p
               /\ after = SelectSeq(before, LAMBDA d : d.pattern # p)
               /\ (last.op = "untrack" /\ last.arg = last'.arg) => files' = files]_vars

\* C22, its case: untrack_pattern(p) was called on a file that still declares a
\* dependency of another pattern and still holds a non-vendor line of p
C22_Witness ==
    /\ last.op = "untrack"
    /\ AttrFile # None
    /\ parse_vendor_deps(AttrFile) # <<>>
    /\ \E i \in 1..Len(AttrFile[1]) :
          /\ IsEntry(AttrFile[1][i])
          /\ AttrFile[1][i][1] = last.arg[1]
          /\ \A t \in Toks(AttrFile[1][i]) : ~IsVendorAttr(t)

====
